---- MODULE Spec2Model ----
(***************************************************************************)
(* Timesheet Calculator: allocation of a project's hours to tasks          *)
(* (TimesheetApp._initialize_projects), the per-day greedy scheduler       *)
(* (TimesheetGenerator.generate_day) and the driver loop with its final    *)
(* emptiness assertion (TimesheetApp.run).                                 *)
(*                                                                         *)
(* The program is sequential; pc is the position of the single thread:     *)
(*   "init"       before _initialize_projects                              *)
(*   "init_error" _initialize_projects raised                              *)
(*   "run"        at the head of the day loop of run()                     *)
(*   "morning"    at the head of the morning while loop of generate_day    *)
(*   "afternoon"  at the head of the afternoon while loop of generate_day  *)
(*   "assert_failed" the final assert of run() raised                      *)
(*   "printed"    run() printed the populated timesheet                    *)
(***************************************************************************)
EXTENDS Integers, Sequences, FiniteSets, TLC

VARIABLES config, workday_start, lunch_start, lunch_end, workday_end,
          project_tasks, pc, day, project, current_time,
          morning_remaining, afternoon_remaining, lines, schedule_output,
          snaps, consumed, day_start_tasks

vars == <<config, workday_start, lunch_start, lunch_end, workday_end,
          project_tasks, pc, day, project, current_time,
          morning_remaining, afternoon_remaining, lines, schedule_output,
          snaps, consumed, day_start_tasks>>

(***************************************************************************)
(* Bounds of the model.                                                    *)
(***************************************************************************)
MaxTasks == 2
MaxWeeks == 1

(***************************************************************************)
(* Program constants.                                                      *)
(***************************************************************************)
days_order == <<"Monday", "Tuesday", "Wednesday", "Thursday", "Friday">>
PtoTaskName == "Paid Time Off"
LunchLabel == "Lunch"
NoProject == "None"

(***************************************************************************)
(* Clock strings "H:MM AM/PM" and their conversions.                       *)
(***************************************************************************)
TimeStr(h, m, p) == [hour |-> h, minute |-> m, period |-> p]
NoTime == [hour |-> 0, minute |-> 0, period |-> ""]

\* strptime(time_str, "%I:%M %p"); dt.hour * 60 + dt.minute
parse_time(time_str) ==
    LET dt_hour == (time_str.hour % 12) + (IF time_str.period = "PM" THEN 12 ELSE 0)
    IN  dt_hour * 60 + time_str.minute

format_time(minutes_since_midnight) ==
    LET hour == minutes_since_midnight \div 60
        minute == minutes_since_midnight % 60
        period == IF hour < 12 \/ hour = 24 THEN "AM" ELSE "PM"
        hour_mod == hour % 12
    IN  TimeStr(IF hour_mod = 0 THEN 12 ELSE hour_mod, minute, period)

(***************************************************************************)
(* Output lines.  Every line of schedule_output is one record:             *)
(*   kind "day"   : "\nDay <day> (<day_name> - <label>):"                  *)
(*   kind "title" : "<day_name>:"                                          *)
(*   kind "entry" : "<start> - <end>: <label>"                             *)
(***************************************************************************)
DayHeader(n, day_name, proj) ==
    [kind |-> "day", day |-> n, day_name |-> day_name, label |-> proj,
     start |-> NoTime, end |-> NoTime]
TitleLine(day_name) ==
    [kind |-> "title", day |-> 0, day_name |-> day_name, label |-> "",
     start |-> NoTime, end |-> NoTime]
EntryLine(start_text, end_text, label) ==
    [kind |-> "entry", day |-> 0, day_name |-> "", label |-> label,
     start |-> start_text, end |-> end_text]

(***************************************************************************)
(* Configurations the model is run on.                                     *)
(***************************************************************************)
ProjectNames == <<"P1", "P2">>
TaskNames == <<"T1", "T2", "T3">>
HoursSet == {1, 3}
PctSet == {1, 35, 99}
PTOSet == {0, 3}

RECURSIVE SeqSum(_)
SeqSum(s) == IF s = <<>> THEN 0 ELSE Head(s) + SeqSum(Tail(s))

\* percentage lists of at most MaxTasks tasks, summing to at most 100
PctSeqs == {s \in UNION {[1..n -> PctSet] : n \in 0..MaxTasks} : SeqSum(s) <= 100}
Distributions ==
    {[i \in 1..Len(s) |-> [task |-> TaskNames[i], percentage |-> s[i]]] : s \in PctSeqs}
ProjectConfigs ==
    [total_hours : HoursSet, speedtype_percentage_distribution : Distributions]
\* one project of any configuration, alone or followed by a second project
\* whose distribution has at most one task
ProjectLists ==
    UNION {{[i \in 1..n |-> [name |-> ProjectNames[i],
                             total_hours |-> f[i].total_hours,
                             speedtype_percentage_distribution |->
                                 f[i].speedtype_percentage_distribution]] :
            f \in {g \in [1..n -> ProjectConfigs] :
                      \A i \in 2..n : Len(g[i].speedtype_percentage_distribution) <= 1}} :
           n \in 1..Len(ProjectNames)}

WorkSchedules ==
    { [d \in {"Monday", "Tuesday", "Wednesday", "Thursday", "Friday"} |-> "P1"],
      [d \in {"Monday", "Tuesday", "Wednesday", "Thursday", "Friday"} |->
          IF d \in {"Tuesday", "Thursday"} THEN "P2" ELSE "P1"],
      [d \in {"Monday"} |-> "P1"] }

\* morning and afternoon of 22 and 20, 21 and 21, 0 and 60 (no lunch), 60 and 0 minutes
Clocks ==
    { <<TimeStr(11, 38, "AM"), TimeStr(12, 0, "PM"), TimeStr(12, 30, "PM"), TimeStr(12, 50, "PM")>>,
      <<TimeStr(11, 39, "AM"), TimeStr(12, 0, "PM"), TimeStr(12, 30, "PM"), TimeStr(12, 51, "PM")>>,
      <<TimeStr(12, 0, "PM"), TimeStr(12, 0, "PM"), TimeStr(12, 0, "PM"), TimeStr(1, 0, "PM")>>,
      <<TimeStr(11, 0, "AM"), TimeStr(12, 0, "PM"), TimeStr(12, 30, "PM"), TimeStr(12, 30, "PM")>> }

(***************************************************************************)
(* _initialize_projects                                                    *)
(***************************************************************************)
num_projects == Len(config.projects)

\* Inputs on which the double-precision product
\* work_hours * 60 * (percentage / 100) falls just below the exact integer
\* value, so that int() yields one less: <<total_hours, paid_time_off,
\* num_projects, percentage>>.
FloatDeficit == {<<3, 0, 1, 35>>, <<3, 0, 2, 35>>}

\* paid_time_off if it is positive, else 0 (numerator of pto_per_project)
PtoNumerator == IF config.paid_time_off > 0 THEN config.paid_time_off ELSE 0

\* mutant: the check of negative effective work hours is missing
WorkHoursNegative_Unchecked(total_hours) == FALSE

\* work_hours < 0, with work_hours = total_hours - pto_per_project
WorkHoursNegative(total_hours) == total_hours * num_projects - PtoNumerator < 0

\* mutant: the allocation is rounded up instead of truncated
Allocated_RoundedUp(total_hours, percentage) ==
    -((-((total_hours * num_projects - PtoNumerator) * 60 * percentage))
        \div (100 * num_projects))

\* int(work_hours * 60 * (percentage / 100))
Allocated(total_hours, percentage) ==
    ((total_hours * num_projects - PtoNumerator) * 60 * percentage)
        \div (100 * num_projects)
    - (IF <<total_hours, config.paid_time_off, num_projects, percentage>> \in FloatDeficit
       THEN 1 ELSE 0)

\* int(pto_per_project * 60)
PtoMinutes == (PtoNumerator * 60) \div num_projects

\* mutant: the Paid Time Off task is put in front of the distribution tasks
BuildTasks_PtoFirst(cfg) ==
    LET dist == cfg.speedtype_percentage_distribution
        work == [i \in 1..Len(dist) |->
                    [name |-> dist[i].task,
                     minutes |-> Allocated(cfg.total_hours, dist[i].percentage)]]
    IN  IF PtoNumerator > 0
        THEN <<[name |-> PtoTaskName, minutes |-> PtoMinutes]>> \o work
        ELSE work

\* the list tasks built for one project
BuildTasks(cfg) ==
    LET dist == cfg.speedtype_percentage_distribution
        work == [i \in 1..Len(dist) |->
                    [name |-> dist[i].task,
                     minutes |-> Allocated(cfg.total_hours, dist[i].percentage)]]
    IN  IF PtoNumerator > 0
        THEN Append(work, [name |-> PtoTaskName, minutes |-> PtoMinutes])
        ELSE work

\* indices of the projects whose effective work hours are negative
NegativeProjects ==
    {i \in 1..num_projects : WorkHoursNegative(config.projects[i].total_hours)}

SetMin(S) == CHOOSE x \in S : \A y \in S : x <= y

InitializeProjects ==
    /\ pc = "init"
    /\ LET built == IF NegativeProjects = {} THEN num_projects
                    ELSE SetMin(NegativeProjects) - 1
       IN  project_tasks' =
               [p \in {config.projects[i].name : i \in 1..built} |->
                   LET i == CHOOSE j \in 1..built : config.projects[j].name = p
                   IN  BuildTasks(config.projects[i])]
    /\ pc' = IF NegativeProjects = {} THEN "run" ELSE "init_error"
    /\ consumed' = [p \in DOMAIN project_tasks' |->
                       [j \in 1..Len(project_tasks'[p]) |-> 0]]
    /\ UNCHANGED <<config, workday_start, lunch_start, lunch_end, workday_end,
                   day, project, current_time, morning_remaining,
                   afternoon_remaining, lines, schedule_output, snaps, day_start_tasks>>

(***************************************************************************)
(* run(): head of the day loop, and the call of generate_day up to the     *)
(* head of its morning loop.                                               *)
(***************************************************************************)
\* mutant: a week is taken to have seven work days
total_work_days_SevenDays == config.weeks * 7

total_work_days == config.weeks * Len(days_order)

WorkScheduleGet(day_name) ==
    IF day_name \in DOMAIN config.work_schedule
    THEN config.work_schedule[day_name] ELSE NoProject

\* tasks = self.project_tasks.get(project, [])
tasks == IF project \in DOMAIN project_tasks THEN project_tasks[project] ELSE <<>>

StartDay ==
    /\ pc = "run"
    /\ day < total_work_days
    /\ LET day_name == days_order[(day % Len(days_order)) + 1]
           proj == WorkScheduleGet(day_name)
       IN  /\ project' = proj
           /\ schedule_output' = Append(schedule_output, DayHeader(day + 1, day_name, proj))
           /\ lines' = <<TitleLine(day_name)>>
           /\ day_start_tasks' = IF proj \in DOMAIN project_tasks
                                 THEN project_tasks[proj] ELSE <<>>
    /\ current_time' = workday_start
    /\ morning_remaining' = lunch_start - workday_start
    /\ pc' = "morning"
    /\ UNCHANGED <<config, workday_start, lunch_start, lunch_end, workday_end,
                   project_tasks, day, afternoon_remaining, snaps, consumed>>

\* TimesheetGenerator.__init__: default_morning + default_afternoon
effective_day_minutes == (lunch_start - workday_start) + (workday_end - lunch_end)

(***************************************************************************)
(* generate_day: one iteration of a segment loop.                          *)
(***************************************************************************)
Abs(x) == IF x < 0 THEN -x ELSE x
Max(a, b) == IF a >= b THEN a ELSE b

\* if abs(end_time - boundary) <= 1: end_time = boundary
\* mutant: the end time is never forced onto the boundary
SnapEnd_Never(end_time, boundary) == end_time

SnapEnd(end_time, boundary) ==
    IF Abs(end_time - boundary) <= 1 THEN boundary ELSE end_time

\* mutant: the comparison is strict
FitsSegment_Strict(task_minutes, remaining) == task_minutes < remaining

\* if task_minutes <= remaining
FitsSegment(task_minutes, remaining) == task_minutes <= remaining

\* mutant: the fully consumed task stays at the front
PopFront_Noop == project_tasks

\* mutant: the queues share one list, so the pop shows in every project
PopFront_Aliased ==
    [p \in DOMAIN project_tasks |->
        IF project_tasks[p] = <<>> THEN <<>> ELSE Tail(project_tasks[p])]

\* mutant: pop() without index removes the last task
PopFront_Last == [project_tasks EXCEPT ![project] = SubSeq(@, 1, Len(@) - 1)]

\* tasks.pop(0)
PopFront == [project_tasks EXCEPT ![project] = Tail(@)]

\* mutant: the subtraction is the wrong way round
DecrementFront_Swapped(remaining) ==
    [project_tasks EXCEPT ![project][1].minutes = remaining - @]

\* mutant: the remaining time is assigned instead of subtracted
DecrementFront_Assign(remaining) ==
    [project_tasks EXCEPT ![project][1].minutes = remaining]

\* mutant: the partially consumed task is popped like a fully consumed one
DecrementFront_Pop(remaining) == PopFront

\* tasks[0][1] -= remaining
DecrementFront(remaining) ==
    [project_tasks EXCEPT ![project][1].minutes = @ - remaining]

\* position, in the queue built at initialization, of the task now at the front
FrontPos == Len(consumed[project]) - Len(tasks) + 1

\* bookkeeping: minutes taken from the front task by one loop iteration
Consume(minutes) == [consumed EXCEPT ![project][FrontPos] = @ + minutes]

SnapCount(raw_end, end_time) ==
    IF raw_end # end_time THEN [snaps EXCEPT ![project] = @ + 1] ELSE snaps

MorningFull ==
    /\ pc = "morning"
    /\ morning_remaining > 0 /\ tasks # <<>>
    /\ FitsSegment(tasks[1].minutes, morning_remaining)
    /\ LET start_time == current_time
           end_time == SnapEnd(current_time + tasks[1].minutes, lunch_start)
       IN  /\ lines' = Append(lines, EntryLine(format_time(start_time),
                                               format_time(end_time), tasks[1].name))
           /\ current_time' = end_time
           /\ morning_remaining' = Max(0, lunch_start - end_time)
           /\ snaps' = SnapCount(current_time + tasks[1].minutes, end_time)
    /\ project_tasks' = PopFront
    /\ consumed' = Consume(tasks[1].minutes)
    /\ UNCHANGED <<config, workday_start, lunch_start, lunch_end, workday_end,
                   pc, day, project, afternoon_remaining, schedule_output, day_start_tasks>>

MorningPartial ==
    /\ pc = "morning"
    /\ morning_remaining > 0 /\ tasks # <<>>
    /\ ~FitsSegment(tasks[1].minutes, morning_remaining)
    /\ LET start_time == current_time
           end_time == SnapEnd(current_time + morning_remaining, lunch_start)
       IN  /\ lines' = Append(lines, EntryLine(format_time(start_time),
                                               format_time(end_time), tasks[1].name))
           /\ snaps' = SnapCount(current_time + morning_remaining, end_time)
    /\ project_tasks' = DecrementFront(morning_remaining)
    /\ current_time' = lunch_start
    /\ morning_remaining' = Max(0, lunch_start - lunch_start)
    /\ consumed' = Consume(morning_remaining)
    /\ UNCHANGED <<config, workday_start, lunch_start, lunch_end, workday_end,
                   pc, day, project, afternoon_remaining, schedule_output, day_start_tasks>>

\* mutant: the Lunch line is emitted only while tasks are left
Lunch_OnlyWithTasks ==
    /\ pc = "morning"
    /\ ~(morning_remaining > 0 /\ tasks # <<>>)
    /\ lines' = IF tasks # <<>>
                THEN Append(lines, EntryLine(config.lunch_start_time,
                                             config.lunch_end_time, LunchLabel))
                ELSE lines
    /\ current_time' = lunch_end
    /\ afternoon_remaining' = workday_end - lunch_end
    /\ pc' = "afternoon"
    /\ UNCHANGED <<config, workday_start, lunch_start, lunch_end, workday_end,
                   project_tasks, day, project, morning_remaining,
                   schedule_output, snaps, consumed, day_start_tasks>>

\* mutant: current_time is not moved to lunch_end before the afternoon loop
Lunch_NoClockReset ==
    /\ pc = "morning"
    /\ ~(morning_remaining > 0 /\ tasks # <<>>)
    /\ lines' = Append(lines, EntryLine(config.lunch_start_time,
                                        config.lunch_end_time, LunchLabel))
    /\ current_time' = current_time
    /\ afternoon_remaining' = workday_end - lunch_end
    /\ pc' = "afternoon"
    /\ UNCHANGED <<config, workday_start, lunch_start, lunch_end, workday_end,
                   project_tasks, day, project, morning_remaining,
                   schedule_output, snaps, consumed, day_start_tasks>>

\* the morning loop ends; the Lunch line; the afternoon loop is set up
Lunch ==
    /\ pc = "morning"
    /\ ~(morning_remaining > 0 /\ tasks # <<>>)
    /\ lines' = Append(lines, EntryLine(config.lunch_start_time,
                                        config.lunch_end_time, LunchLabel))
    /\ current_time' = lunch_end
    /\ afternoon_remaining' = workday_end - lunch_end
    /\ pc' = "afternoon"
    /\ UNCHANGED <<config, workday_start, lunch_start, lunch_end, workday_end,
                   project_tasks, day, project, morning_remaining,
                   schedule_output, snaps, consumed, day_start_tasks>>

AfternoonFull ==
    /\ pc = "afternoon"
    /\ afternoon_remaining > 0 /\ tasks # <<>>
    /\ FitsSegment(tasks[1].minutes, afternoon_remaining)
    /\ LET start_time == current_time
           end_time == SnapEnd(current_time + tasks[1].minutes, workday_end)
       IN  /\ lines' = Append(lines, EntryLine(format_time(start_time),
                                               format_time(end_time), tasks[1].name))
           /\ current_time' = end_time
           /\ afternoon_remaining' = Max(0, workday_end - end_time)
           /\ snaps' = SnapCount(current_time + tasks[1].minutes, end_time)
    /\ project_tasks' = PopFront
    /\ consumed' = Consume(tasks[1].minutes)
    /\ UNCHANGED <<config, workday_start, lunch_start, lunch_end, workday_end,
                   pc, day, project, morning_remaining, schedule_output, day_start_tasks>>

AfternoonPartial ==
    /\ pc = "afternoon"
    /\ afternoon_remaining > 0 /\ tasks # <<>>
    /\ ~FitsSegment(tasks[1].minutes, afternoon_remaining)
    /\ LET start_time == current_time
           end_time == SnapEnd(current_time + afternoon_remaining, workday_end)
       IN  /\ lines' = Append(lines, EntryLine(format_time(start_time),
                                               format_time(end_time), tasks[1].name))
           /\ snaps' = SnapCount(current_time + afternoon_remaining, end_time)
    /\ project_tasks' = DecrementFront(afternoon_remaining)
    /\ current_time' = workday_end
    /\ afternoon_remaining' = Max(0, workday_end - workday_end)
    /\ consumed' = Consume(afternoon_remaining)
    /\ UNCHANGED <<config, workday_start, lunch_start, lunch_end, workday_end,
                   pc, day, project, morning_remaining, schedule_output, day_start_tasks>>

\* the afternoon loop ends; generate_day returns; run() collects the lines
EndDay ==
    /\ pc = "afternoon"
    /\ ~(afternoon_remaining > 0 /\ tasks # <<>>)
    /\ schedule_output' = schedule_output \o lines
    /\ day' = day + 1
    /\ pc' = "run"
    /\ UNCHANGED <<config, workday_start, lunch_start, lunch_end, workday_end,
                   project_tasks, project, current_time, morning_remaining,
                   afternoon_remaining, lines, snaps, consumed, day_start_tasks>>

(***************************************************************************)
(* run(): the final check and the printing of the timesheet.               *)
(***************************************************************************)
\* mutant: the final assertion is not evaluated
AssertPasses_Skipped == TRUE

\* for project, tasks in self.project_tasks.items(): assert not tasks
AssertPasses == \A p \in DOMAIN project_tasks : project_tasks[p] = <<>>

FinalCheck ==
    /\ pc = "run"
    /\ day >= total_work_days
    /\ pc' = IF AssertPasses THEN "printed" ELSE "assert_failed"
    /\ UNCHANGED <<config, workday_start, lunch_start, lunch_end, workday_end,
                   project_tasks, day, project, current_time, morning_remaining,
                   afternoon_remaining, lines, schedule_output, snaps, consumed, day_start_tasks>>

(***************************************************************************)
(* Specification.                                                          *)
(***************************************************************************)
Init ==
    /\ \E projects \in ProjectLists, ws \in WorkSchedules, w \in 1..MaxWeeks,
          pto \in PTOSet, c \in Clocks :
          /\ config = [projects |-> projects, work_schedule |-> ws, weeks |-> w,
                       workday_start_time |-> c[1], lunch_start_time |-> c[2],
                       lunch_end_time |-> c[3], workday_end_time |-> c[4],
                       paid_time_off |-> pto]
          /\ workday_start = parse_time(c[1])
          /\ lunch_start = parse_time(c[2])
          /\ lunch_end = parse_time(c[3])
          /\ workday_end = parse_time(c[4])
    /\ project_tasks = <<>>
    /\ pc = "init"
    /\ day = 0
    /\ project = NoProject
    /\ current_time = 0
    /\ morning_remaining = 0
    /\ afternoon_remaining = 0
    /\ lines = <<>>
    /\ schedule_output = <<>>
    /\ snaps = [i \in {"P1", "P2"} |-> 0]
    /\ consumed = <<>>
    /\ day_start_tasks = <<>>

Next ==
    \/ InitializeProjects
    \/ StartDay
    \/ MorningFull
    \/ MorningPartial
    \/ Lunch
    \/ AfternoonFull
    \/ AfternoonPartial
    \/ EndDay
    \/ FinalCheck

Spec == Init /\ [][Next]_vars

\* the program is sequential and always takes its next step
FairSpec == Spec /\ WF_vars(Next)

(***************************************************************************)
(* Quantities the properties are stated in.                                *)
(***************************************************************************)
Projects == {config.projects[i].name : i \in 1..num_projects}
ProjectCfg(p) == config.projects[CHOOSE i \in 1..num_projects : config.projects[i].name = p]

\* the queue _initialize_projects builds for project p
InitialQueue(p) == BuildTasks(ProjectCfg(p))

RECURSIVE MinutesSum(_)
MinutesSum(q) == IF q = <<>> THEN 0 ELSE Head(q).minutes + MinutesSum(Tail(q))

TotalAllocated(p) == MinutesSum(InitialQueue(p))

\* the minutes an output line spans
Duration(l) == parse_time(l.end) - parse_time(l.start)

IsTaskEntry(l) == l.kind = "entry" /\ l.label # LunchLabel

\* sum of (end - start) over the task entries printed under the day headers of project p
RECURSIVE SumFrom(_, _, _, _)
SumFrom(out, i, cur, p) ==
    IF i > Len(out) THEN 0
    ELSE IF out[i].kind = "day" THEN SumFrom(out, i + 1, out[i].label, p)
    ELSE (IF IsTaskEntry(out[i]) /\ cur = p THEN Duration(out[i]) ELSE 0)
         + SumFrom(out, i + 1, cur, p)

SumEmitted(p) == SumFrom(schedule_output, 1, NoProject, p)

\* days of the run whose weekday the work schedule maps to project p
DaysMapped(p) ==
    Cardinality({d \in 0..(total_work_days - 1) :
                    WorkScheduleGet(days_order[(d % Len(days_order)) + 1]) = p})

\* minutes of project p that the run can schedule
Capacity(p) == DaysMapped(p) * effective_day_minutes

RunEnded == pc \in {"printed", "assert_failed"}

\* minutes allocated to the task called name in the initial queue of project p
ZeroAllocated(p, name) ==
    \E i \in 1..Len(InitialQueue(p)) :
        InitialQueue(p)[i].name = name /\ InitialQueue(p)[i].minutes = 0

(***************************************************************************)
(* C1: every task entry generate_day emits has end > start, and no entry   *)
(* is emitted for a task whose allocated minutes are 0.                    *)
(* The code does not filter zero-minute allocations: the statement fails.  *)
(***************************************************************************)
C1_EntriesPositiveAndNoZeroTask ==
    \A i \in 1..Len(lines) :
        IsTaskEntry(lines[i]) =>
            /\ parse_time(lines[i].end) > parse_time(lines[i].start)
            /\ ~ZeroAllocated(project, lines[i].label)

(***************************************************************************)
(* C2: over a full run that ends with every queue empty, the sum of        *)
(* (end - start) over a project's task entries equals the project's total  *)
(* allocated minutes.  This is the original statement; snapping an end to  *)
(* the segment boundary adds a minute to an entry, so it fails.            *)
(***************************************************************************)
C2_SumEqualsAllocated ==
    pc = "printed" => \A p \in Projects : SumEmitted(p) = TotalAllocated(p)

(***************************************************************************)
(* C2 (amended): over a full run that ends with every queue empty, the sum *)
(* of (end - start) over a project's task entries equals the project's     *)
(* total allocated minutes plus one minute for every entry whose end       *)
(* generate_day moved to the segment boundary.                             *)
(***************************************************************************)
C2_SumEqualsAllocatedPlusSnaps ==
    pc = "printed" =>
        \A p \in Projects : SumEmitted(p) = TotalAllocated(p) + snaps[p]

C2_Witness ==
    /\ pc = "printed"
    /\ \E p \in Projects : snaps[p] > 0 /\ TotalAllocated(p) > effective_day_minutes
    /\ \E p \in Projects : snaps[p] = 0 /\ SumEmitted(p) > 0

(***************************************************************************)
(* C3: whenever every project's schedulable minutes (days mapped to it     *)
(* times effective_day_minutes) are at least its total allocated minutes,  *)
(* every queue is empty after the last day and the final check passes.     *)
(* A snapped end uses a minute of the segment without consuming a minute   *)
(* of the task, so the statement fails on the code.                        *)
(***************************************************************************)
C3_CapacitySufficesThenEmpty ==
    (RunEnded /\ \A p \in Projects : Capacity(p) >= TotalAllocated(p))
        => pc = "printed"

(***************************************************************************)
(* C4: if some project's total allocated minutes exceed the minutes        *)
(* schedulable on the days mapped to it, run() ends in the failed final    *)
(* check and the timesheet is not printed; the timesheet is printed only   *)
(* in a state where every queue is empty.                                  *)
(***************************************************************************)
OverDemand == \E p \in Projects : TotalAllocated(p) > Capacity(p)

C4_OverDemandFailsFinalCheck ==
    /\ [](pc = "printed" => (\A p \in Projects : project_tasks[p] = <<>>) /\ ~OverDemand)
    /\ [][(pc = "run" /\ day >= total_work_days /\ OverDemand)
             => pc' = "assert_failed"]_vars
    /\ [][pc = "assert_failed" => pc' = "assert_failed"]_vars

C4_Witness ==
    /\ pc = "assert_failed"
    /\ \E p \in Projects : DaysMapped(p) = 0 /\ TotalAllocated(p) > 0
    /\ \E p \in Projects : DaysMapped(p) > 0 /\ TotalAllocated(p) > Capacity(p)

(***************************************************************************)
(* C5: for every project whose percentages are non-negative and sum to at  *)
(* most 100, the allocated minutes of its distribution tasks sum to at     *)
(* most effective_hours x 60, with effective_hours = total_hours -         *)
(* PTO / project_count (both sides multiplied by project_count).           *)
(***************************************************************************)
JustInitialized == pc = "run" /\ day = 0

PctSum(dist) == SeqSum([i \in 1..Len(dist) |-> dist[i].percentage])

DistributionMinutes(p) ==
    SeqSum([j \in 1..Len(ProjectCfg(p).speedtype_percentage_distribution) |->
               project_tasks[p][j].minutes])

C5_AllocationWithinBudget ==
    JustInitialized =>
        \A p \in Projects :
            LET dist == ProjectCfg(p).speedtype_percentage_distribution
            IN  ((\A j \in 1..Len(dist) : dist[j].percentage >= 0) /\ PctSum(dist) <= 100)
                => DistributionMinutes(p) * num_projects
                     <= (ProjectCfg(p).total_hours * num_projects
                           - config.paid_time_off) * 60

C5_Witness ==
    /\ JustInitialized
    /\ \E p \in Projects :
          /\ PctSum(ProjectCfg(p).speedtype_percentage_distribution) = 100
          /\ DistributionMinutes(p) > 0
          /\ DistributionMinutes(p) * num_projects
               < (ProjectCfg(p).total_hours * num_projects - config.paid_time_off) * 60

(***************************************************************************)
(* C6: the queue built for a project lists the distribution tasks in the   *)
(* distribution's order, followed when PTO > 0 by exactly one last task    *)
(* "Paid Time Off" of floor((PTO / project_count) x 60) minutes; when      *)
(* PTO = 0 no "Paid Time Off" task is appended.                            *)
(***************************************************************************)
C6_QueueOrderAndPtoLast ==
    JustInitialized =>
        \A p \in Projects :
            LET dist == ProjectCfg(p).speedtype_percentage_distribution
                q == project_tasks[p]
            IN  /\ \A j \in 1..Len(dist) : j <= Len(q) /\ q[j].name = dist[j].task
                /\ config.paid_time_off > 0 =>
                      /\ Len(q) = Len(dist) + 1
                      /\ q[Len(q)] = [name |-> PtoTaskName,
                                      minutes |-> (config.paid_time_off * 60)
                                                     \div num_projects]
                /\ config.paid_time_off = 0 =>
                      /\ Len(q) = Len(dist)
                      /\ \A j \in 1..Len(q) : q[j].name # PtoTaskName

C6_Witness ==
    /\ JustInitialized
    /\ config.paid_time_off > 0
    /\ num_projects = 2
    /\ \E p \in Projects :
          /\ Len(project_tasks[p]) = 3
          /\ project_tasks[p][3] = [name |-> PtoTaskName, minutes |-> 90]
          /\ project_tasks[p][1].name = "T1"

(***************************************************************************)
(* C7: if total_hours - PTO / project_count < 0 for some project,          *)
(* initialization fails before any day is scheduled: generate_day is never *)
(* called and no timesheet is printed.                                     *)
(***************************************************************************)
SomeWorkHoursNegative ==
    \E i \in 1..num_projects :
        config.projects[i].total_hours * num_projects - config.paid_time_off < 0

C8_ExactFit ==
    /\ [][(pc = "morning" /\ tasks # <<>> /\ morning_remaining > 0
            /\ tasks[1].minutes = morning_remaining)
          => /\ lines' = Append(lines, EntryLine(format_time(current_time),
                                                 format_time(lunch_start), tasks[1].name))
             /\ project_tasks' = [project_tasks EXCEPT ![project] = Tail(tasks)]
             /\ pc' = "morning" /\ morning_remaining' = 0]_vars
    /\ [][(pc = "afternoon" /\ tasks # <<>> /\ afternoon_remaining > 0
            /\ tasks[1].minutes = afternoon_remaining)
          => /\ lines' = Append(lines, EntryLine(format_time(current_time),
                                                 format_time(workday_end), tasks[1].name))
             /\ project_tasks' = [project_tasks EXCEPT ![project] = Tail(tasks)]
             /\ pc' = "afternoon" /\ afternoon_remaining' = 0]_vars
    /\ [][(pc = "morning" /\ morning_remaining = 0)
          => /\ pc' = "afternoon" /\ project_tasks' = project_tasks
             /\ lines' = Append(lines, EntryLine(config.lunch_start_time,
                                                 config.lunch_end_time, LunchLabel))]_vars
    /\ [][(pc = "afternoon" /\ afternoon_remaining = 0)
          => pc' = "run" /\ project_tasks' = project_tasks /\ lines' = lines]_vars

\* the first day's morning held exactly the first task; the next task is untouched
C8_Witness ==
    /\ pc = "afternoon" /\ day = 0
    /\ Len(lines) = 3
    /\ lines[2] = EntryLine(format_time(workday_start), format_time(lunch_start), "T1")
    /\ lines[3].label = LunchLabel
    /\ project \in Projects
    /\ InitialQueue(project) # <<>>
    /\ InitialQueue(project)[1].minutes = lunch_start - workday_start
    /\ tasks = Tail(InitialQueue(project))
    /\ tasks # <<>>

(***************************************************************************)
(* C9: in either segment, when the front task's minutes exceed the         *)
(* segment's remaining time, generate_day emits one entry from the current *)
(* time to the segment end, subtracts exactly the remaining time from the  *)
(* front task, leaves it at the front with the rest of the queue           *)
(* unchanged, and ends the segment.                                        *)
(***************************************************************************)
C9_PartialConsumption ==
    /\ [][(pc = "morning" /\ tasks # <<>> /\ morning_remaining > 0
            /\ tasks[1].minutes > morning_remaining)
          => /\ lines' = Append(lines, EntryLine(format_time(current_time),
                                                 format_time(lunch_start), tasks[1].name))
             /\ project_tasks' =
                   [project_tasks EXCEPT ![project] =
                       <<[name |-> tasks[1].name,
                          minutes |-> tasks[1].minutes - morning_remaining]>>
                       \o Tail(tasks)]
             /\ pc' = "morning" /\ morning_remaining' = 0
             /\ current_time' = lunch_start]_vars
    /\ [][(pc = "afternoon" /\ tasks # <<>> /\ afternoon_remaining > 0
            /\ tasks[1].minutes > afternoon_remaining)
          => /\ lines' = Append(lines, EntryLine(format_time(current_time),
                                                 format_time(workday_end), tasks[1].name))
             /\ project_tasks' =
                   [project_tasks EXCEPT ![project] =
                       <<[name |-> tasks[1].name,
                          minutes |-> tasks[1].minutes - afternoon_remaining]>>
                       \o Tail(tasks)]
             /\ pc' = "afternoon" /\ afternoon_remaining' = 0
             /\ current_time' = workday_end]_vars

\* one task filled the whole first day and carries its rest to the next day
C9_Witness ==
    /\ pc = "run" /\ day = 1
    /\ project \in Projects
    /\ InitialQueue(project) # <<>>
    /\ lunch_start - workday_start > 0 /\ workday_end - lunch_end > 0
    /\ lines = <<TitleLine("Monday"),
                 EntryLine(format_time(workday_start), format_time(lunch_start),
                           InitialQueue(project)[1].name),
                 EntryLine(config.lunch_start_time, config.lunch_end_time, LunchLabel),
                 EntryLine(format_time(lunch_end), format_time(workday_end),
                           InitialQueue(project)[1].name)>>
    /\ Len(tasks) = Len(InitialQueue(project))
    /\ tasks[1].minutes = InitialQueue(project)[1].minutes - effective_day_minutes
    /\ tasks[1].minutes > 0
    /\ Tail(tasks) = Tail(InitialQueue(project))

(***************************************************************************)
(* C10: every generated day contains exactly one Lunch entry, spanning     *)
(* lunch_start to lunch_end, after all morning entries and before all      *)
(* afternoon entries; it is emitted also when the queue is empty at the    *)
(* start of the day or runs empty during the morning, and no other entry   *)
(* than the task entries is emitted for unused time.                       *)
(***************************************************************************)
LunchIndexes == {i \in 1..Len(lines) : lines[i].kind = "entry" /\ lines[i].label = LunchLabel}

DayGenerated == pc = "afternoon" \/ (pc \in {"run", "printed", "assert_failed"} /\ day > 0)

QueueNames(p) ==
    IF p \in Projects THEN {InitialQueue(p)[j].name : j \in 1..Len(InitialQueue(p))} ELSE {}

C10_OneLunchPerDay ==
    /\ [](pc = "morning" => LunchIndexes = {})
    /\ [](DayGenerated =>
            \E i \in 2..Len(lines) :
                /\ LunchIndexes = {i}
                /\ parse_time(lines[i].start) = lunch_start
                /\ parse_time(lines[i].end) = lunch_end
                /\ lines[1].kind = "title"
                /\ \A j \in 2..Len(lines) :
                      /\ j < i => /\ lines[j].label \in QueueNames(project)
                                  /\ parse_time(lines[j].start) >= workday_start
                                  /\ parse_time(lines[j].end) <= lunch_start
                      /\ j > i => /\ lines[j].label \in QueueNames(project)
                                  /\ parse_time(lines[j].start) >= lunch_end
                                  /\ parse_time(lines[j].end) <= workday_end)
    /\ [][(pc = "morning" /\ tasks = <<>>)
          => /\ pc' = "afternoon"
             /\ lines' = Append(lines, EntryLine(config.lunch_start_time,
                                                 config.lunch_end_time, LunchLabel))]_vars
    /\ [][(pc = "afternoon" /\ tasks = <<>>)
          => pc' = "run" /\ schedule_output' = schedule_output \o lines]_vars

\* the queue ran empty during the morning: the entry, then Lunch, then nothing
C10_Witness ==
    /\ pc = "run" /\ day > 0
    /\ Len(lines) = 3
    /\ lines[2].label \in QueueNames(project)
    /\ parse_time(lines[2].end) < lunch_start
    /\ lines[3] = EntryLine(config.lunch_start_time, config.lunch_end_time, LunchLabel)
    /\ workday_end - lunch_end > 0

(***************************************************************************)
(* C11: with workday_start <= lunch_start <= lunch_end <= workday_end, the *)
(* entries of a generated day are chronological and do not overlap: every  *)
(* morning entry lies within [workday_start, lunch_start], every afternoon *)
(* entry within [lunch_end, workday_end], the first entry of a segment     *)
(* starts at the segment start and every later entry of the segment starts *)
(* where the previous one ended.                                           *)
(***************************************************************************)
ClockOrdered ==
    workday_start <= lunch_start /\ lunch_start <= lunch_end /\ lunch_end <= workday_end

\* index of the Lunch line in lines, or one past the end while there is none
LunchAt == IF LunchIndexes = {} THEN Len(lines) + 1 ELSE SetMin(LunchIndexes)

InGenerateDay == pc \in {"morning", "afternoon"} \/ DayGenerated

C11_EntriesChronological ==
    (ClockOrdered /\ InGenerateDay) =>
        \A j \in 2..Len(lines) :
            LET st == parse_time(lines[j].start)
                en == parse_time(lines[j].end)
            IN  /\ j < LunchAt =>
                      /\ workday_start <= st /\ st <= en /\ en <= lunch_start
                      /\ st = IF j = 2 THEN workday_start
                              ELSE parse_time(lines[j - 1].end)
                /\ j > LunchAt =>
                      /\ lunch_end <= st /\ st <= en /\ en <= workday_end
                      /\ st = IF j = LunchAt + 1 THEN lunch_end
                              ELSE parse_time(lines[j - 1].end)

\* a day with two morning entries of positive length and an afternoon entry
C11_Witness ==
    /\ pc = "run" /\ day > 0
    /\ ClockOrdered
    /\ LunchAt = 4
    /\ Len(lines) >= 5
    /\ Duration(lines[2]) > 0
    /\ Duration(lines[3]) > 0
    /\ Duration(lines[5]) > 0
    /\ lunch_end > lunch_start

(***************************************************************************)
(* C12: run() schedules exactly weeks x 5 days; the n-th day has weekday   *)
(* number (n-1) mod 5 in the order Monday..Friday and is scheduled against *)
(* the queue of the project the work schedule assigns to that weekday; no  *)
(* weekend day is scheduled.                                               *)
(***************************************************************************)
WeekdayOf(n) ==
    CASE (n - 1) % 5 = 0 -> "Monday"
      [] (n - 1) % 5 = 1 -> "Tuesday"
      [] (n - 1) % 5 = 2 -> "Wednesday"
      [] (n - 1) % 5 = 3 -> "Thursday"
      [] (n - 1) % 5 = 4 -> "Friday"

AssignedProject(n) ==
    IF WeekdayOf(n) \in DOMAIN config.work_schedule
    THEN config.work_schedule[WeekdayOf(n)] ELSE NoProject

DayHeaders == SelectSeq(schedule_output, LAMBDA l : l.kind = "day")

RECURSIVE LabelsFrom(_, _, _, _)
LabelsFrom(out, i, cur, p) ==
    IF i > Len(out) THEN <<>>
    ELSE IF out[i].kind = "day" THEN LabelsFrom(out, i + 1, out[i].label, p)
    ELSE (IF IsTaskEntry(out[i]) /\ cur = p THEN <<out[i].label>> ELSE <<>>)
         \o LabelsFrom(out, i + 1, cur, p)

EmittedLabels(p) == LabelsFrom(schedule_output, 1, NoProject, p)

\* position of the task called name in the initial queue of project p
QueuePos(p, name) ==
    CHOOSE j \in 1..Len(InitialQueue(p)) : InitialQueue(p)[j].name = name

C14_FifoConsumption ==
    /\ [](\A p \in DOMAIN project_tasks :
            LET q == project_tasks[p]
                iq == InitialQueue(p)
                k == Len(iq) - Len(q)
                labels == EmittedLabels(p)
            IN  /\ k >= 0
                /\ \A j \in 1..Len(q) :
                      /\ q[j].name = iq[k + j].name
                      /\ j > 1 => q[j] = iq[k + j]
                /\ \A j \in 1..k : consumed[p][j] = iq[j].minutes
                /\ \A j \in 1..Len(q) :
                      /\ consumed[p][k + j] + q[j].minutes = iq[k + j].minutes
                      /\ iq[k + j].minutes > 0 => consumed[p][k + j] < iq[k + j].minutes
                /\ \A a \in 1..Len(labels) : \A b \in a..Len(labels) :
                      /\ labels[a] \in QueueNames(p)
                      /\ QueuePos(p, labels[a]) <= QueuePos(p, labels[b]))
    /\ [][(pc # "init" /\ (project_tasks' # project_tasks \/ consumed' # consumed))
          => /\ tasks # <<>>
             /\ \/ tasks' = Tail(tasks)
                \/ /\ Len(tasks') = Len(tasks)
                   /\ Tail(tasks') = Tail(tasks)
                   /\ tasks'[1].name = tasks[1].name
             /\ (Len(tasks') < Len(tasks))
                   <=> (consumed'[project][FrontPos]
                          = InitialQueue(project)[FrontPos].minutes)]_vars

\* three tasks were drained in order, one of them over several entries
C14_Witness ==
    /\ pc = "printed"
    /\ \E p \in Projects :
          /\ Len(InitialQueue(p)) = 3
          /\ Len(EmittedLabels(p)) >= 5
          /\ \A j \in 1..3 : consumed[p][j] = InitialQueue(p)[j].minutes
          /\ \A j \in 1..3 : InitialQueue(p)[j].minutes > 0

(***************************************************************************)
(* C15: end-time snapping.  No emitted task entry ends one minute before   *)
(* the boundary of its segment (lunch_start in the morning, workday_end in *)
(* the afternoon).  When a task that fits would end one minute before the  *)
(* boundary, its entry ends at the boundary, the task is removed, the      *)
(* segment's remaining time becomes 0, and the next step leaves the segment*)
(* without touching the queue; an entry that ends at the boundary is the   *)
(* last entry of its segment.                                              *)
(***************************************************************************)
\* the boundary of the segment that line j of lines belongs to
BoundaryOf(j) == IF j < LunchAt THEN lunch_start ELSE workday_end

\* the index of the last line of the segment that line j of lines belongs to
SegmentLast(j) == IF j < LunchAt THEN LunchAt - 1 ELSE Len(lines)

C15_EndTimeSnapping ==
    /\ [](InGenerateDay =>
            \A j \in 2..Len(lines) :
                IsTaskEntry(lines[j]) =>
                    /\ parse_time(lines[j].end) # BoundaryOf(j) - 1
                    /\ parse_time(lines[j].end) = BoundaryOf(j) => j = SegmentLast(j))
    /\ [][/\ (/\ pc = "morning" /\ morning_remaining > 0 /\ tasks # <<>>
              /\ tasks[1].minutes <= morning_remaining
              /\ current_time + tasks[1].minutes = lunch_start - 1)
             => /\ lines' = Append(lines, EntryLine(format_time(current_time),
                                                    format_time(lunch_start),
                                                    tasks[1].name))
                /\ tasks' = Tail(tasks)
                /\ morning_remaining' = 0
          /\ (pc = "morning" /\ morning_remaining = 0)
             => pc' = "afternoon" /\ project_tasks' = project_tasks
          /\ (/\ pc = "afternoon" /\ afternoon_remaining > 0 /\ tasks # <<>>
              /\ tasks[1].minutes <= afternoon_remaining
              /\ current_time + tasks[1].minutes = workday_end - 1)
             => /\ lines' = Append(lines, EntryLine(format_time(current_time),
                                                    format_time(workday_end),
                                                    tasks[1].name))
                /\ tasks' = Tail(tasks)
                /\ afternoon_remaining' = 0
          /\ (pc = "afternoon" /\ afternoon_remaining = 0)
             => pc' = "run" /\ project_tasks' = project_tasks]_vars

\* a task one minute shorter than the morning was snapped to lunch_start and
\* the next task started only after lunch
C15_Witness ==
    /\ pc = "run" /\ day = 1
    /\ InitialQueue(project) # <<>>
    /\ InitialQueue(project)[1].minutes = lunch_start - workday_start - 1
    /\ Len(lines) >= 4
    /\ lines[2] = EntryLine(format_time(workday_start), format_time(lunch_start),
                            InitialQueue(project)[1].name)
    /\ lines[3].label = LunchLabel
    /\ IsTaskEntry(lines[4])
    /\ lines[4].start = format_time(lunch_end)
    /\ tasks # <<>>

(***************************************************************************)
(* C16: scheduling a day changes only the queue of the project mapped to   *)
(* that day's weekday.  On every step from the start of a day's            *)
(* generate_day call to its return, the queues of all other projects and   *)
(* the four clock boundaries are unchanged, and when the weekday is mapped *)
(* to a name that has no queue no queue changes at all.                    *)
(***************************************************************************)
\* run() is about to schedule a day, or generate_day is running
SchedulingDay ==
    pc \in {"morning", "afternoon"} \/ (pc = "run" /\ day < total_work_days)

C16_OnlyMappedQueueChanges ==
    [][SchedulingDay =>
          /\ \A p \in DOMAIN project_tasks :
                p # AssignedProject(day + 1) =>
                    /\ p \in DOMAIN project_tasks'
                    /\ project_tasks'[p] = project_tasks[p]
          /\ AssignedProject(day + 1) \notin DOMAIN project_tasks =>
                project_tasks' = project_tasks
          /\ DOMAIN project_tasks' = DOMAIN project_tasks
          /\ <<workday_start, lunch_start, lunch_end, workday_end>>'
                = <<workday_start, lunch_start, lunch_end, workday_end>>
          /\ config' = config]_vars

\* Tuesday took minutes from P2 while the queue Monday left to P1 still waits
C16_Witness ==
    /\ pc = "run" /\ day = 2
    /\ project = "P2" /\ "P2" \in DOMAIN project_tasks
    /\ InitialQueue("P2") # <<>>
    /\ project_tasks["P2"] # InitialQueue("P2")
    /\ project_tasks["P1"] # <<>>
    /\ project_tasks["P1"] # InitialQueue("P1")

(***************************************************************************)
(* C17: the allocations built at initialization are non-negative integers, *)
(* and in every reachable state every queued task has non-negative integer *)
(* minutes, a queued task that has been partially consumed has at least 1  *)
(* minute left, and the minutes a day has removed from its project's queue *)
(* are between 0 and effective_day_minutes.                                *)
(***************************************************************************)
\* minutes the current (or last) generate_day call has taken from its queue
RemovedToday == MinutesSum(day_start_tasks) - MinutesSum(tasks)

C17_MinutesNonNegativeAndDayBounded ==
    /\ \A p \in DOMAIN project_tasks :
          LET q == project_tasks[p]
              k == Len(consumed[p]) - Len(q)
          IN  \A j \in 1..Len(q) :
                 /\ q[j].minutes \in Nat
                 /\ consumed[p][k + j] > 0 => (j = 1 /\ q[j].minutes >= 1)
    /\ InGenerateDay =>
          /\ RemovedToday >= 0
          /\ RemovedToday <= effective_day_minutes
          /\ pc = "morning" => RemovedToday <= lunch_start - workday_start

\* a day used all its minutes and left the front task partially consumed
C17_Witness ==
    /\ pc = "run" /\ day >= 1
    /\ tasks # <<>>
    /\ consumed[project][FrontPos] > 0
    /\ tasks[1].minutes >= 1
    /\ effective_day_minutes > 0
    /\ RemovedToday = effective_day_minutes

(***************************************************************************)
(* C18: termination.  Every iteration of a segment loop removes the front  *)
(* task or sets the segment's remaining time to 0, so a day emits at most  *)
(* (length of the queue at the start of the day + 2) task entries; each    *)
(* generate_day call returns; and the run ends, reaching its final check   *)
(* only after weeks x 5 days.                                              *)
(***************************************************************************)
\* loop iterations of the current (or last) generate_day call: one entry each
Iterations == Cardinality({j \in 1..Len(lines) : IsTaskEntry(lines[j])})

Terminated == pc \in {"printed", "assert_failed", "init_error"}

C18_Termination ==
    /\ [][(pc = "morning" /\ lines' # lines /\ pc' = "morning")
             => (tasks' = Tail(tasks) \/ morning_remaining' = 0)]_vars
    /\ [][(pc = "afternoon" /\ lines' # lines /\ pc' = "afternoon")
             => (tasks' = Tail(tasks) \/ afternoon_remaining' = 0)]_vars
    /\ [](InGenerateDay => Iterations <= Len(day_start_tasks) + 2)
    /\ [](RunEnded => day = config.weeks * 5)
    /\ [][(pc = "run" /\ pc' \in {"printed", "assert_failed"})
             => day = config.weeks * 5]_vars
    /\ (pc \in {"morning", "afternoon"}) ~> (pc = "run")
    /\ <>Terminated

\* a day that began with a zero-minute task at the front took one iteration
\* more than the queue was long, and returned
C18_Witness ==
    /\ pc = "run" /\ day >= 1
    /\ day_start_tasks # <<>>
    /\ day_start_tasks[1].minutes = 0
    /\ Iterations = Len(day_start_tasks) + 1

TypeOK ==
    /\ pc \in {"init", "init_error", "run", "morning", "afternoon",
               "assert_failed", "printed"}
    /\ day \in 0..total_work_days
====
